---- MODULE Spec2Model ----
(***************************************************************************)
(* Model of app/mcp_manager.py: the MCPManager connection registry and its *)
(* call_tool retry engine.  Every await of the source (connect, transport  *)
(* call, backoff sleep, lock wait) is a suspension point; the code between *)
(* two suspension points is one atomic action.  A second part models the   *)
(* plugins of app/plugins: the webhook endpoint of BasePlugin, JiraPlugin  *)
(* and RecallPlugin.                                                       *)
(***************************************************************************)
EXTENDS Integers, Sequences, FiniteSets, TLC

\* Total number of call_tool invocations started in one behaviour.
MaxCalls == 2

\* Keys of the config mapping handed to MCPManager.__init__, in dict order.
ServerOrder == <<"jira", "k8s">>

Registered == {ServerOrder[i] : i \in 1..Len(ServerOrder)}

\* Server names a caller may pass to call_tool.
Names == Registered \cup {"missing"}

Tools == {"create_issue"}

\* Concurrent tasks that call call_tool.
Callers == {"A", "B"}

\* The tasks of the scenario with a queue of two on one lock.
FifoCallers == {"A", "B", "C"}

\* Total number of call_tool invocations started in that scenario.
MaxFifoCalls == 3

\* Total number of call_tool invocations started in the behaviours checked for
\* termination.
MaxLiveCalls == 2

\* self._retry_delays
retry_delays == <<1, 2, 5, 10>>

\* What the remote call inside _execute_tool can do once it is in flight.
TransportOutcomes == {"success", "timeout", "connection_error", "error"}

VARIABLES
    server_configs,       \* self.server_configs: name -> [enabled]
    servers,              \* keys of self.servers (connected sessions)
    pending_connections,  \* self.pending_connections
    locks,                \* self._locks: name -> asyncio.Lock state
    calls,                \* one call_tool activation per caller
    init,                 \* the activation of initialize()
    started,              \* number of call_tool invocations so far
    request,              \* the activation of a plugin's handle_alert endpoint
    jira,                 \* JiraPlugin: its setting and the locals of handle()
    recall                \* RecallPlugin: alerts_store, total_alerts_received

mcp_vars == <<server_configs, servers, pending_connections, locks, calls, init, started>>

plugin_vars == <<request, jira, recall>>

vars == <<mcp_vars, plugin_vars>>

----
\* asyncio.Lock: a flag and a FIFO of waiters; release wakes the first waiter,
\* which takes the lock when it resumes.

NewLock == [locked |-> FALSE, waiters |-> <<>>, woken |-> FALSE]

CanAcquireAlways(lk) == TRUE

CanAcquireBarging(lk) == ~lk.locked

CanAcquire(lk) == ~lk.locked /\ lk.waiters = <<>>

Acquire(lk) == [lk EXCEPT !.locked = TRUE]

Enqueue(lk, c) == [lk EXCEPT !.waiters = Append(@, c)]

ReleaseNoWakeup(lk) == [lk EXCEPT !.locked = FALSE]

\* Lock.release(): the lock is freed and the first waiter is woken
Release(lk) == [lk EXCEPT !.locked = FALSE, !.woken = (lk.waiters # <<>>)]

Resume(lk) == [locked |-> TRUE, waiters |-> Tail(lk.waiters), woken |-> FALSE]

NewLocksEnabledOnly(cfg) == [s \in {n \in DOMAIN cfg : cfg[n].enabled} |-> NewLock]

\* __init__: self._locks[server_name] = asyncio.Lock() for every key of config
NewLocks(cfg) == [s \in DOMAIN cfg |-> NewLock]

LockKeyShared(s) == ServerOrder[1]

\* self._locks[server_name]: the lock a call on server s takes
LockKey(s) == s

----
\* One activation of call_tool.

NoResult == [status |-> "none", tool |-> "none", server |-> "none"]

\* The value _execute_tool returns.
ToolResult(s, t) == [status |-> "success", tool |-> t, server |-> s]

NewCall(s, t, retry) ==
    [pc |-> "start", server |-> s, tool |-> t, retry |-> retry, attempt |-> 0,
     execs |-> 0, connects |-> 0, reconnects |-> 0, sleeps |-> <<>>,
     fails |-> "none", oks |-> 0, raised |-> "none", result |-> NoResult]

Idle == [NewCall("none", "none", FALSE) EXCEPT !.pc = "idle"]

\* Instrumentation of one call: _execute_tool invocations, lazy connects,
\* reconnects, the delays slept, the kind of failure its attempts met
\* ("none", one kind, or "mixed") and the number of attempts that succeeded.
CountExec(r) == [r EXCEPT !.execs = @ + 1]

CountConnect(r) == [r EXCEPT !.connects = @ + 1]

CountReconnect(r) == [r EXCEPT !.reconnects = @ + 1]

NoteSuccess(r) == [r EXCEPT !.oks = @ + 1]

NoteFailure(r, e) ==
    [r EXCEPT !.fails = IF @ = "none" \/ @ = e THEN e ELSE "mixed"]

RaiseSwallowed(r, e) == [r EXCEPT !.pc = "done"]

\* raise
Raise(r, e) == [r EXCEPT !.pc = "done", !.raised = e]

ReturnNothing(r, v) == [r EXCEPT !.pc = "done"]

\* return result
Return(r, v) == [r EXCEPT !.pc = "done", !.result = v]

IsLastEarly(attempt) == attempt >= Len(retry_delays) - 2

\* attempt == len(self._retry_delays) - 1
IsLast(attempt) == attempt = Len(retry_delays) - 1

SleepFirstDelay(r) == [r EXCEPT !.pc = "sleeping", !.sleeps = Append(@, retry_delays[1])]

\* await asyncio.sleep(delay), delay being the schedule entry of this attempt
Sleep(r) ==
    [r EXCEPT !.pc = "sleeping", !.sleeps = Append(@, retry_delays[r.attempt + 1])]

OnTimeoutIgnoringRetryFlag(r) ==
    IF IsLast(r.attempt) THEN Raise(r, "TimeoutError") ELSE Sleep(r)

\* except asyncio.TimeoutError
OnTimeout(r) ==
    IF ~r.retry \/ IsLast(r.attempt) THEN Raise(r, "TimeoutError") ELSE Sleep(r)

OnConnectionErrorOffByOne(r) ==
    IF r.retry /\ r.attempt < Len(retry_delays) - 2
    THEN [CountReconnect(r) EXCEPT !.pc = "reconnecting"]
    ELSE Raise(r, "ConnectionError_failed")

\* except ConnectionError, up to the await of the reconnect
OnConnectionError(r) ==
    IF r.retry /\ r.attempt < Len(retry_delays) - 1
    THEN [CountReconnect(r) EXCEPT !.pc = "reconnecting"]
    ELSE Raise(r, "ConnectionError_failed")

OnOtherErrorWrapped(r, e) ==
    IF ~r.retry \/ IsLast(r.attempt) THEN Raise(r, "ConnectionError_failed") ELSE Sleep(r)

\* except Exception: the exception e is re-raised as it is
OnOtherError(r, e) ==
    IF ~r.retry \/ IsLast(r.attempt) THEN Raise(r, e) ELSE Sleep(r)

AfterReconnectContinue(r, ok) == Sleep(r)

\* the rest of "except ConnectionError": after a reconnect that succeeded the
\* delay is slept and the loop continues; a reconnect that raised falls through
\* to the raise
AfterReconnect(r, ok) == IF ok THEN Sleep(r) ELSE Raise(r, "ConnectionError_failed")

OnFailure(r, e) ==
    CASE e = "timeout" -> OnTimeout(r)
      [] e = "connection_error" -> OnConnectionError(r)
      [] OTHER -> OnOtherError(r, e)

StartAttemptUnchecked(r, srv) == [CountExec(r) EXCEPT !.pc = "executing"]

\* The call of _execute_tool up to its first await: self.servers[server_name]
\* raises KeyError when the session is gone, else the remote call is in flight.
StartAttempt(r, srv) ==
    LET r1 == CountExec(r) IN
    IF r.server \in srv
    THEN [r1 EXCEPT !.pc = "executing"]
    ELSE OnFailure(NoteFailure(r1, "key_error"), "key_error")

ExitLockOnSuccess(lk, r) == IF r.pc = "done" /\ r.raised = "none" THEN Release(lk) ELSE lk

ExitLockOnSleep(lk, r) == IF r.pc \in {"done", "sleeping"} THEN Release(lk) ELSE lk

\* __aexit__ of "async with self._locks[server_name]": runs when the block is
\* left, by return or by exception.
ExitLock(lk, r) == IF r.pc = "done" THEN Release(lk) ELSE lk

ConnectedAfterDropOnFailure(srv, s, ok) == IF ok THEN srv \cup {s} ELSE srv \ {s}

\* _connect_server: the bookkeeping of a connect that succeeded or failed
ConnectedAfter(srv, s, ok) == IF ok THEN srv \cup {s} ELSE srv

PendingAfterAlwaysDiscard(pend, s, ok) == pend \ {s}

PendingAfterKeep(pend, s, ok) == pend

\* _connect_server: self.pending_connections.discard(server_name), reached
\* only when the connect succeeded
PendingAfter(pend, s, ok) == IF ok THEN pend \ {s} ELSE pend

----
\* The plugins.  What MCPManager.call_tool or the AI provider does inside a
\* helper of a plugin is the outcome of that helper, drawn from everything
\* they can return or raise.

\* Total number of webhook requests received in one behaviour.
MaxRequests == 3

\* Largest number of alerts in one payload.
MaxAlerts == 2

Fingerprints == {"fp1", "fp2"}

\* models.Alert, reduced to the field the plugins key on
Alerts == [fingerprint : Fingerprints]

\* WebhookPayload.alerts
Payloads == UNION {[1..n -> Alerts] : n \in 0..MaxAlerts}

\* "other" is any plugin whose handle() is not modelled line by line
PluginNames == {"jira", "recall", "other"}

\* the exceptions call_tool raises
McpErrors == {"ValueError", "ConnectionError", "TimeoutError", "KeyError"}

\* call_mcp_tool: None without a manager, else the result or error of call_tool
McpOutcomes == {"none", "result"} \cup McpErrors

NoResponse == [status |-> "none", plugin |-> "none", message |-> "none", alerts_processed |-> 0]

IdleRequest ==
    [pc |-> "idle", n |-> 0, plugin |-> "none", alerts |-> <<>>, raised |-> "none",
     response |-> NoResponse]

\* handle_alert: return result
HandleReturned(req, result) == [req EXCEPT !.pc = "responded", !.response = result]

HandleRaisedPropagates(req, e) == [req EXCEPT !.pc = "escaped", !.raised = e]

\* handle_alert: except Exception
HandleRaised(req, e) ==
    [req EXCEPT !.pc = "responded", !.raised = e,
                !.response = [status |-> "error", plugin |-> req.plugin, message |-> e,
                              alerts_processed |-> 0]]

\* RecallPlugin.__init__; now is the clock read by _store_alert
NewRecall == [alerts_store |-> [f \in {} |-> <<>>], total_alerts_received |-> 0, now |-> 0]

StoreAlertOverwrite(store, alert, at) ==
    [f \in DOMAIN store \cup {alert.fingerprint} |->
        IF f = alert.fingerprint THEN <<[alert |-> alert, received_at |-> at]>> ELSE store[f]]

\* _store_alert
StoreAlert(store, alert, at) ==
    LET fingerprint == alert.fingerprint
        alert_entry == [alert |-> alert, received_at |-> at]
        history == IF fingerprint \in DOMAIN store THEN store[fingerprint] ELSE <<>>
    IN [f \in DOMAIN store \cup {fingerprint} |->
           IF f = fingerprint THEN Append(history, alert_entry) ELSE store[f]]

RECURSIVE StoreAll(_, _, _)
\* the for loop of RecallPlugin.handle
StoreAll(store, alerts, at) ==
    IF alerts = <<>> THEN store
    ELSE StoreAll(StoreAlert(store, Head(alerts), at), Tail(alerts), at + 1)

\* RecallPlugin.handle up to its return
RecallHandle(rc, alerts) ==
    [alerts_store |-> StoreAll(rc.alerts_store, alerts, rc.now),
     total_alerts_received |-> rc.total_alerts_received + Len(alerts),
     now |-> rc.now + Len(alerts)]

\* the value RecallPlugin.handle returns
RecallResult(alerts) ==
    [status |-> "ok", plugin |-> "recall", message |-> Len(alerts),
     alerts_processed |-> Len(alerts)]

RECURSIVE SumLen(_, _)
SumLen(store, fs) ==
    IF fs = {} THEN 0
    ELSE LET f == CHOOSE x \in fs : TRUE IN Len(store[f]) + SumLen(store, fs \ {f})

\* _get_stats: total_alerts_stored
TotalStored(store) == SumLen(store, DOMAIN store)

\* The locals of JiraPlugin.handle, with self.deduplicate; dispositions and
\* dup_failed record what became of each alert and which duplicate checks
\* raised, attempted the alerts for which _create_jira_issue was called.
JiraIdle ==
    [pc |-> "idle", deduplicate |-> TRUE, alerts |-> <<>>, i |-> 0, summary |-> "none",
     created_issues |-> <<>>, skipped_duplicates |-> 0, errors |-> 0,
     dispositions |-> <<>>, dup_failed |-> {}, attempted |-> {}]

\* what call_mcp_tool gives _is_duplicate: a dict with total > 0, one with
\* total = 0, None, a value that is not a dict, or an exception
DupOutcomes == {"found", "not_found", "none", "not_a_dict", "raises"}

\* _generate_summary: text of the AI, no text, an AI error, or no AI at all
SummaryOutcomes == {"ai", "ai_none", "ai_raises", "no_ai"}

\* what call_mcp_tool gives _create_jira_issue: an issue with or without a
\* key, None, a truthy value without get(), or an exception
CreateOutcomes == {"issue", "issue_without_key", "none", "not_a_dict", "raises"}

IsDuplicateFailClosed(out) == out \in {"found", "raises"}

\* _is_duplicate: only a dict with total > 0 is a duplicate; None, any other
\* value and an exception are not
IsDuplicate(out) == out = "found"

\* _generate_summary: the template is the fallback of every AI failure
GenerateSummary(out) == IF out = "ai" THEN "ai" ELSE "template"

\* issue.get("key", "unknown")
IssueKey(out) == IF out = "issue" THEN "OPS-1" ELSE "unknown"

\* the for loop of handle(): on to the next alert, or past the last one
NextAlert(j) ==
    LET n == j.i + 1 IN
    IF n > Len(j.alerts) THEN [j EXCEPT !.pc = "returned", !.i = n]
    ELSE [j EXCEPT !.i = n,
                   !.pc = IF j.deduplicate THEN "is_duplicate" ELSE "generate_summary"]

\* skipped_duplicates += 1; continue
Skip(j) ==
    NextAlert([j EXCEPT !.skipped_duplicates = @ + 1,
                        !.dispositions = Append(@, "skipped")])

\* created_issues.append(issue_key)
Created(j, key) ==
    NextAlert([j EXCEPT !.created_issues = Append(@, key),
                        !.dispositions = Append(@, "created")])

\* errors += 1, in the else branch or in "except Exception"
Errored(j) ==
    NextAlert([j EXCEPT !.errors = @ + 1, !.dispositions = Append(@, "error")])

\* "if issue:" and what follows, and the except clause around it
AfterCreate(j, out) ==
    IF out \in {"issue", "issue_without_key"} THEN Created(j, IssueKey(out)) ELSE Errored(j)

\* the value JiraPlugin.handle returns
JiraResult(j) ==
    [status |-> IF j.errors = 0 THEN "ok" ELSE "partial",
     plugin |-> "jira",
     message |-> <<Len(j.created_issues), j.skipped_duplicates, j.errors>>,
     alerts_processed |-> Len(j.created_issues),
     issues_created |-> j.created_issues,
     skipped |-> j.skipped_duplicates,
     errors |-> j.errors]

\* the plugins as constructed, no request received
PluginsAtRest ==
    /\ request = IdleRequest
    /\ jira = JiraIdle
    /\ recall = NewRecall

----
TypeOK ==
    /\ server_configs \in [Registered -> [enabled : BOOLEAN]]
    /\ servers \subseteq Registered
    /\ pending_connections \subseteq Registered
    /\ DOMAIN locks = Registered
    /\ \A s \in Registered : locks[s].locked \in BOOLEAN
    /\ DOMAIN calls \in {Callers, FifoCallers}
    /\ started \in Nat

Init ==
    /\ server_configs \in [Registered -> [enabled : BOOLEAN]]
    /\ servers = {}
    /\ pending_connections = {}
    /\ locks = NewLocks(server_configs)
    /\ calls = [c \in Callers |-> Idle]
    /\ init = [pc |-> "new", i |-> 0]
    /\ started = 0
    /\ PluginsAtRest

----
\* call_tool from "Check if connected" to the first await inside the lock
Enter(c, r, srv) ==
    LET s == r.server IN
    IF s \notin srv
    THEN /\ calls' = [calls EXCEPT ![c] = Raise(r, "ConnectionError_not_connected")]
         /\ UNCHANGED locks
    ELSE IF CanAcquire(locks[LockKey(s)])
    THEN LET n == StartAttempt(r, srv) IN
         /\ calls' = [calls EXCEPT ![c] = n]
         /\ locks' = [locks EXCEPT ![LockKey(s)] = ExitLock(Acquire(@), n)]
    ELSE /\ calls' = [calls EXCEPT ![c] = [r EXCEPT !.pc = "waiting"]]
         /\ locks' = [locks EXCEPT ![LockKey(s)] = Enqueue(@, c)]

ValidateNoUnknownCheck(s) ==
    IF s \in DOMAIN server_configs /\ ~server_configs[s].enabled
    THEN "ValueError_disabled" ELSE "ok"

ValidateNoEnabledCheck(s) ==
    IF s \notin DOMAIN server_configs THEN "ValueError_not_configured" ELSE "ok"

\* "Validate server exists" and "Check if server is enabled"
Validate(s) ==
    IF s \notin DOMAIN server_configs THEN "ValueError_not_configured"
    ELSE IF ~server_configs[s].enabled THEN "ValueError_disabled"
    ELSE "ok"

LazyConnectNever(s) == FALSE

\* if server_name in self.pending_connections
NeedsLazyConnect(s) == s \in pending_connections

\* call_tool, from entry to its first await
CallTool(c, s, t, retry) ==
    /\ calls[c].pc \in {"idle", "done"}
    /\ init.pc = "done"
    /\ started' = started + 1
    /\ UNCHANGED <<plugin_vars, server_configs, servers, pending_connections, init>>
    /\ LET r == NewCall(s, t, retry) IN
       IF Validate(s) # "ok"
       THEN /\ calls' = [calls EXCEPT ![c] = Raise(r, Validate(s))]
            /\ UNCHANGED locks
       ELSE IF NeedsLazyConnect(s)
       THEN /\ calls' = [calls EXCEPT ![c] =
                           [CountConnect(r) EXCEPT !.pc = "lazy_connect"]]
            /\ UNCHANGED locks
       ELSE Enter(c, r, servers)

\* the lazy _connect_server completes
LazyConnectDone(c, ok) ==
    /\ calls[c].pc = "lazy_connect"
    /\ LET s == calls[c].server
           r == calls[c]
       IN /\ servers' = ConnectedAfter(servers, s, ok)
          /\ pending_connections' = PendingAfter(pending_connections, s, ok)
          /\ IF ok
             THEN Enter(c, r, servers')
             ELSE /\ calls' = [calls EXCEPT ![c] = Raise(r, "ConnectionError_cannot_connect")]
                  /\ UNCHANGED locks
    /\ UNCHANGED <<plugin_vars, server_configs, init, started>>

\* a waiter woken by release() takes the lock and makes its first attempt
LockResume(c) ==
    /\ calls[c].pc = "waiting"
    /\ LET s == calls[c].server
           lk == locks[LockKey(s)]
       IN /\ lk.woken
          /\ lk.waiters # <<>>
          /\ Head(lk.waiters) = c
          /\ LET n == StartAttempt(calls[c], servers) IN
             /\ calls' = [calls EXCEPT ![c] = n]
             /\ locks' = [locks EXCEPT ![LockKey(s)] = ExitLock(Resume(lk), n)]
    /\ UNCHANGED <<plugin_vars, server_configs, servers, pending_connections, init, started>>

\* the remote call of _execute_tool completes
ExecDone(c, out) ==
    /\ calls[c].pc = "executing"
    /\ LET s == calls[c].server
           r == calls[c]
           n == IF out = "success"
                THEN Return(NoteSuccess(r), ToolResult(s, r.tool))
                ELSE OnFailure(NoteFailure(r, out), out)
       IN /\ calls' = [calls EXCEPT ![c] = n]
          /\ locks' = [locks EXCEPT ![LockKey(s)] = ExitLock(@, n)]
    /\ UNCHANGED <<plugin_vars, server_configs, servers, pending_connections, init, started>>

\* the reconnect inside "except ConnectionError" completes
ReconnectDone(c, ok) ==
    /\ calls[c].pc = "reconnecting"
    /\ LET s == calls[c].server
           r == calls[c]
           n == AfterReconnect(r, ok)
       IN /\ servers' = ConnectedAfter(servers, s, ok)
          /\ pending_connections' = PendingAfter(pending_connections, s, ok)
          /\ calls' = [calls EXCEPT ![c] = n]
          /\ locks' = [locks EXCEPT ![LockKey(s)] = ExitLock(@, n)]
    /\ UNCHANGED <<plugin_vars, server_configs, init, started>>

\* asyncio.sleep(delay) completes: next iteration of the for loop
SleepDone(c) ==
    /\ calls[c].pc = "sleeping"
    /\ LET s == calls[c].server
           n == StartAttempt([calls[c] EXCEPT !.attempt = @ + 1], servers)
       IN /\ calls' = [calls EXCEPT ![c] = n]
          /\ locks' = [locks EXCEPT ![LockKey(s)] = ExitLock(@, n)]
    /\ UNCHANGED <<plugin_vars, server_configs, servers, pending_connections, init, started>>

----
NextEnabledNoSkip(i) == i + 1

\* initialize(): the next enabled server after position i, or past the end
NextEnabled(i) ==
    LET later == {j \in (i + 1)..Len(ServerOrder) : server_configs[ServerOrder[j]].enabled}
    IN IF later = {} THEN Len(ServerOrder) + 1
       ELSE CHOOSE j \in later : \A k \in later : j <= k

InitAt(j) ==
    IF j > Len(ServerOrder) THEN [pc |-> "done", i |-> j] ELSE [pc |-> "connecting", i |-> j]

InitializeStart ==
    /\ init.pc = "new"
    /\ init' = InitAt(NextEnabled(0))
    /\ UNCHANGED <<plugin_vars, server_configs, servers, pending_connections, locks, calls, started>>

PendingNotMarked(pend, s) == pend

\* except Exception in initialize(): self.pending_connections.add(server_name)
PendingAfterStartupFailure(pend, s) == pend \cup {s}

\* one _connect_server of initialize() completes
InitConnectDone(ok) ==
    /\ init.pc = "connecting"
    /\ LET s == ServerOrder[init.i] IN
       /\ servers' = ConnectedAfter(servers, s, ok)
       /\ pending_connections' =
            IF ok THEN PendingAfter(pending_connections, s, ok)
            ELSE PendingAfterStartupFailure(pending_connections, s)
    /\ init' = InitAt(NextEnabled(init.i))
    /\ UNCHANGED <<plugin_vars, server_configs, locks, calls, started>>

AfterCleanupStopAtFirst(srv) == srv \ {CHOOSE s \in srv : TRUE}

\* the loop of cleanup(): del self.servers[server_name] for every key
AfterCleanup(srv) == srv \ srv

\* cleanup(): no await inside, every session is deleted in one step
Cleanup ==
    /\ init.pc = "done"
    /\ servers # {}
    /\ servers' = AfterCleanup(servers)
    /\ UNCHANGED <<plugin_vars, server_configs, pending_connections, locks, calls, init, started>>

----
Next ==
    \/ \E c \in Callers, s \in Names, t \in Tools, retry \in BOOLEAN :
          started < MaxCalls /\ CallTool(c, s, t, retry)
    \/ \E c \in Callers, ok \in BOOLEAN : LazyConnectDone(c, ok)
    \/ \E c \in Callers : LockResume(c)
    \/ \E c \in Callers, out \in TransportOutcomes : ExecDone(c, out)
    \/ \E c \in Callers, ok \in BOOLEAN : ReconnectDone(c, ok)
    \/ \E c \in Callers : SleepDone(c)
    \/ InitializeStart
    \/ \E ok \in BOOLEAN : InitConnectDone(ok)
    \/ Cleanup

Spec == Init /\ [][Next]_vars

----
\* Three tasks calling the same server, so that two of them can queue on its
\* lock behind the third.  The remote call succeeds or times out, so a holder
\* of the lock may sleep between attempts while the others wait.
FifoOutcomes == {"success", "timeout"}

InitFifo ==
    /\ server_configs = [s \in Registered |-> [enabled |-> TRUE]]
    /\ servers = {}
    /\ pending_connections = {}
    /\ locks = NewLocks(server_configs)
    /\ calls = [c \in FifoCallers |-> Idle]
    /\ init = [pc |-> "new", i |-> 0]
    /\ started = 0
    /\ PluginsAtRest

NextFifo ==
    \/ \E c \in FifoCallers, t \in Tools, retry \in BOOLEAN :
          started < MaxFifoCalls /\ CallTool(c, ServerOrder[1], t, retry)
    \/ \E c \in FifoCallers, ok \in BOOLEAN : LazyConnectDone(c, ok)
    \/ \E c \in FifoCallers : LockResume(c)
    \/ \E c \in FifoCallers, out \in FifoOutcomes : ExecDone(c, out)
    \/ \E c \in FifoCallers : SleepDone(c)
    \/ InitializeStart
    \/ \E ok \in BOOLEAN : InitConnectDone(ok)
    \/ Cleanup

SpecFifo == InitFifo /\ [][NextFifo]_vars

----
\* Two tasks calling the one enabled server under a fair scheduler: the event loop
\* resumes a woken waiter, and every connect, remote call and sleep that is
\* under way completes.
InitLive ==
    /\ server_configs = [s \in Registered |-> [enabled |-> s = ServerOrder[1]]]
    /\ servers = {}
    /\ pending_connections = {}
    /\ locks = NewLocks(server_configs)
    /\ calls = [c \in Callers |-> Idle]
    /\ init = [pc |-> "new", i |-> 0]
    /\ started = 0
    /\ PluginsAtRest

NextLive ==
    \/ \E c \in Callers, t \in Tools, retry \in BOOLEAN :
          started < MaxLiveCalls /\ CallTool(c, ServerOrder[1], t, retry)
    \/ \E c \in Callers, ok \in BOOLEAN : LazyConnectDone(c, ok)
    \/ \E c \in Callers : LockResume(c)
    \/ \E c \in Callers, out \in TransportOutcomes : ExecDone(c, out)
    \/ \E c \in Callers, ok \in BOOLEAN : ReconnectDone(c, ok)
    \/ \E c \in Callers : SleepDone(c)
    \/ InitializeStart
    \/ \E ok \in BOOLEAN : InitConnectDone(ok)
    \/ Cleanup

Fairness ==
    \A c \in Callers :
        /\ WF_vars(\E ok \in BOOLEAN : LazyConnectDone(c, ok))
        /\ WF_vars(LockResume(c))
        /\ WF_vars(\E out \in TransportOutcomes : ExecDone(c, out))
        /\ WF_vars(\E ok \in BOOLEAN : ReconnectDone(c, ok))
        /\ WF_vars(SleepDone(c))

SpecLive == InitLive /\ [][NextLive]_vars /\ Fairness

----
\* Webhook requests, one at a time.
InitPlugins ==
    /\ server_configs = [s \in Registered |-> [enabled |-> TRUE]]
    /\ servers = {}
    /\ pending_connections = {}
    /\ locks = NewLocks(server_configs)
    /\ calls = [c \in Callers |-> Idle]
    /\ init = [pc |-> "new", i |-> 0]
    /\ started = 0
    /\ request = IdleRequest
    /\ jira \in {[JiraIdle EXCEPT !.deduplicate = d] : d \in BOOLEAN}
    /\ recall = NewRecall

\* a step of JiraPlugin.handle; handle_alert returns its result when it ends
JiraStep(j) ==
    /\ jira' = j
    /\ request' = IF j.pc = "returned" THEN HandleReturned(request, JiraResult(j)) ELSE request

\* JiraPlugin between two of its activations: the locals of handle() are gone
JiraAtRest(j) == [JiraIdle EXCEPT !.deduplicate = j.deduplicate]

\* POST /alert/{plugin}: handle_alert up to the first await inside handle()
HandleAlert(p, alerts) ==
    /\ request.pc \in {"idle", "responded", "escaped"}
    /\ request.n < MaxRequests
    /\ UNCHANGED mcp_vars
    /\ LET req == [IdleRequest EXCEPT !.pc = "handling", !.n = request.n + 1,
                                      !.plugin = p, !.alerts = alerts]
       IN CASE p = "recall" ->
                 /\ recall' = RecallHandle(recall, alerts)
                 /\ request' = HandleReturned(req, RecallResult(alerts))
                 /\ jira' = JiraAtRest(jira)
            [] p = "jira" ->
                 LET j == NextAlert([JiraAtRest(jira) EXCEPT !.alerts = alerts])
                 IN /\ jira' = j
                    /\ request' = IF j.pc = "returned"
                                  THEN HandleReturned(req, JiraResult(j)) ELSE req
                    /\ UNCHANGED recall
            [] OTHER ->
                 /\ request' = req
                 /\ jira' = JiraAtRest(jira)
                 /\ UNCHANGED recall

\* await self._is_duplicate(alert) completes
IsDuplicateDone(out) ==
    /\ request.pc = "handling"
    /\ request.plugin = "jira"
    /\ jira.pc = "is_duplicate"
    /\ LET j == IF out = "raises" THEN [jira EXCEPT !.dup_failed = @ \cup {jira.i}] ELSE jira
       IN JiraStep(IF IsDuplicate(out) THEN Skip(j) ELSE [j EXCEPT !.pc = "generate_summary"])
    /\ UNCHANGED <<mcp_vars, recall>>

\* await self._generate_summary(alert) completes and _create_jira_issue calls
\* call_mcp_tool
GenerateSummaryDone(out) ==
    /\ request.pc = "handling"
    /\ request.plugin = "jira"
    /\ jira.pc = "generate_summary"
    /\ JiraStep([jira EXCEPT !.pc = "create_jira_issue", !.summary = GenerateSummary(out),
                             !.attempted = @ \cup {jira.i}])
    /\ UNCHANGED <<mcp_vars, recall>>

\* await self._create_jira_issue(...) completes
CreateJiraIssueDone(out) ==
    /\ request.pc = "handling"
    /\ request.plugin = "jira"
    /\ jira.pc = "create_jira_issue"
    /\ JiraStep(AfterCreate(jira, out))
    /\ UNCHANGED <<mcp_vars, recall>>

\* the handle() of another plugin ends: it returns, or an error of
\* call_mcp_tool (re-raised there) propagates out of it
OtherHandleDone(out) ==
    /\ request.pc = "handling"
    /\ request.plugin = "other"
    /\ request' = IF out \in McpErrors
                  THEN HandleRaised(request, out)
                  ELSE HandleReturned(request,
                          [status |-> "ok", plugin |-> request.plugin, message |-> out,
                           alerts_processed |-> Len(request.alerts)])
    /\ UNCHANGED <<mcp_vars, jira, recall>>

\* requests to the plugins whose handle() awaits the MCP manager
NextWebhook ==
    \/ \E p \in PluginNames \ {"recall"}, alerts \in Payloads : HandleAlert(p, alerts)
    \/ \E out \in DupOutcomes : IsDuplicateDone(out)
    \/ \E out \in SummaryOutcomes : GenerateSummaryDone(out)
    \/ \E out \in CreateOutcomes : CreateJiraIssueDone(out)
    \/ \E out \in McpOutcomes : OtherHandleDone(out)

SpecWebhook == InitPlugins /\ [][NextWebhook]_vars

\* requests to the recall plugin
NextRecall == \E alerts \in Payloads : HandleAlert("recall", alerts)

SpecRecall == InitPlugins /\ [][NextRecall]_vars

----
\* Vocabulary of the properties.

\* the call holds the lock of its server: it is inside "async with"
InLoop(r) == r.pc \in {"executing", "sleeping", "reconnecting"}

\* the remote call of _execute_tool is in flight
InFlight(c, s) == calls[c].pc = "executing" /\ calls[c].server = s

Failed(r) == r.pc = "done" /\ r.raised # "none"

Succeeded(r) == r.pc = "done" /\ r.raised = "none"

\* this step is the entry of caller c into call_tool
Starts(c) == calls[c].pc \in {"idle", "done"} /\ calls'[c] # calls[c]

\* this step makes caller c call _execute_tool
Invokes(c) ==
    /\ calls'[c] # calls[c]
    /\ calls'[c].execs = (IF Starts(c) THEN 0 ELSE calls[c].execs) + 1

Enabled(s) == s \in DOMAIN server_configs /\ server_configs[s].enabled

----
\* C1: for every configured server, at most one caller has a transport
\* invocation (_execute_tool) in flight on it, whatever the interleaving.
C1_MutualExclusion ==
    \A s \in Registered : Cardinality({c \in Callers : InFlight(c, s)}) <= 1

\* one caller is mid-call on a server while another queues on the same lock
C1_Witness ==
    \E a, b \in Callers :
        /\ a # b
        /\ InFlight(a, calls[a].server)
        /\ calls[b].pc = "waiting"
        /\ calls[b].server = calls[a].server

\* C2: while caller a is inside its retry sequence on server S (after its first
\* transport invocation and before its call_tool has returned or raised, also
\* while it sleeps or reconnects), no step makes another caller invoke the
\* transport on S.
C2_SlotHeldForWholeSequence ==
    [][\A a, b \in Callers :
          (a # b /\ InLoop(calls[a]) /\ calls'[b].server = calls[a].server)
              => ~Invokes(b)]_vars

\* a caller sleeps or reconnects between attempts while another one queues
C2_Witness ==
    \E a, b \in Callers :
        /\ a # b
        /\ calls[a].pc \in {"sleeping", "reconnecting"}
        /\ calls[a].execs >= 2
        /\ calls[b].pc = "waiting"
        /\ calls[b].server = calls[a].server

\* C3: a lock is never left held by a call that has terminated: whenever the
\* lock of S is locked, some call on S is still inside its retry sequence.
C3_SlotReleasedOnExit ==
    \A s \in Registered :
        locks[s].locked => \E c \in Callers : InLoop(calls[c]) /\ calls[c].server = s

\* calls that held the lock have ended by success and by an error, lock free
C3_Witness ==
    \E a, b \in Callers :
        /\ Succeeded(calls[a]) /\ calls[a].execs >= 1
        /\ Failed(calls[b]) /\ calls[b].execs >= 1
        /\ calls[a].server = calls[b].server
        /\ ~locks[calls[a].server].locked

\* C4: a call_tool on a name that is not configured has raised the
\* not-configured error, with no connection attempt and no transport invocation.
C4_UnknownServer ==
    \A c \in Callers :
        (calls[c].pc # "idle" /\ calls[c].server \notin DOMAIN server_configs)
            => /\ Failed(calls[c])
               /\ calls[c].raised = "ValueError_not_configured"
               /\ calls[c].connects = 0
               /\ calls[c].reconnects = 0
               /\ calls[c].execs = 0

\* an unknown name was called while another server was connected
C4_Witness ==
    \E c \in Callers :
        /\ calls[c].server = "missing"
        /\ calls[c].raised = "ValueError_not_configured"
        /\ servers # {}

\* C5: a call_tool on a configured server with enabled = false has raised the
\* disabled error, with no connection attempt, no transport invocation and no
\* retry.
C5_DisabledServer ==
    \A c \in Callers :
        (calls[c].pc # "idle" /\ calls[c].server \in DOMAIN server_configs
                              /\ ~server_configs[calls[c].server].enabled)
            => /\ Failed(calls[c])
               /\ calls[c].raised = "ValueError_disabled"
               /\ calls[c].connects = 0
               /\ calls[c].reconnects = 0
               /\ calls[c].execs = 0
               /\ calls[c].sleeps = <<>>

C5_Witness ==
    \E c \in Callers :
        /\ calls[c].server \in Registered
        /\ ~server_configs[calls[c].server].enabled
        /\ calls[c].raised = "ValueError_disabled"

\* C6 as stated: with retry allowed, only the exhaustion of the schedule ends a
\* call with the connection-failed error (a failed reconnect does not).
C6_Original ==
    \A c \in Callers :
        (Failed(calls[c]) /\ calls[c].retry /\ calls[c].raised = "ConnectionError_failed")
            => calls[c].execs = Len(retry_delays)

\* C6 amended: a connection-level failure of an attempt that is not the last,
\* with retry allowed, is followed by exactly one reconnect; the step that ends
\* the reconnect either continues (the server is connected, the delay of this
\* attempt is slept, no other counter moves) or, when the reconnect failed,
\* ends the call at once with the connection-failed error, without a sleep and
\* without a further attempt.
C6_ReconnectFailureAborts ==
    [][\A c \in Callers :
          /\ (calls'[c].pc = "reconnecting" /\ calls[c].pc # "reconnecting")
                => /\ calls[c].pc = "executing"
                   /\ calls[c].retry
                   /\ calls[c].attempt < Len(retry_delays) - 1
                   /\ calls'[c].reconnects = calls[c].reconnects + 1
          /\ (calls[c].pc = "reconnecting" /\ calls'[c] # calls[c])
                => \/ /\ calls'[c].pc = "sleeping"
                      /\ calls[c].server \in servers'
                      /\ calls'[c] = [calls[c] EXCEPT
                            !.pc = "sleeping",
                            !.sleeps = Append(@, retry_delays[calls[c].attempt + 1])]
                   \/ /\ calls'[c] = [calls[c] EXCEPT
                            !.pc = "done", !.raised = "ConnectionError_failed"]
                      /\ servers' = servers]_vars

\* a reconnect failed and the call ended before the schedule was exhausted
C6_Witness ==
    \E c \in Callers :
        /\ Failed(calls[c])
        /\ calls[c].retry
        /\ calls[c].raised = "ConnectionError_failed"
        /\ calls[c].reconnects >= 1
        /\ calls[c].execs < Len(retry_delays)

\* C7 as stated: a call_tool that starts on an enabled configured server which
\* is not connected (pending or absent) attempts one connection.
C7_Original ==
    [][\A c \in Callers :
          (Starts(c) /\ Enabled(calls'[c].server) /\ calls'[c].server \notin servers)
              => calls'[c].connects = 1]_vars

\* C7 amended: a call_tool that starts on an enabled configured server attempts
\* exactly one connection, before any transport invocation, when the server is
\* pending; when the server is absent (neither connected nor pending) it
\* attempts no connection and raises the not-connected error at once.
C7_LazyConnectOnlyWhenPending ==
    /\ [](\A c \in Callers :
            /\ calls[c].connects <= 1
            /\ calls[c].pc = "lazy_connect" => (calls[c].connects = 1 /\ calls[c].execs = 0))
    /\ [][\A c \in Callers :
            (Starts(c) /\ Enabled(calls'[c].server)) =>
                /\ calls'[c].server \in pending_connections
                      => (calls'[c].pc = "lazy_connect" /\ calls'[c].connects = 1)
                /\ (calls'[c].server \notin pending_connections
                    /\ calls'[c].server \notin servers)
                      => /\ Failed(calls'[c])
                         /\ calls'[c].raised = "ConnectionError_not_connected"
                         /\ calls'[c].connects = 0
                         /\ calls'[c].execs = 0]_vars

\* one call connects lazily to a pending server, another found its server absent
C7_Witness ==
    \E a, b \in Callers :
        /\ calls[a].pc = "lazy_connect"
        /\ calls[b].raised = "ConnectionError_not_connected"
        /\ Enabled(calls[b].server)
        /\ calls[b].connects = 0

\* C8 as stated: a step that ends a call with the connection-failed error
\* leaves its server not connected and pending.
C8_Original ==
    [][\A c \in Callers :
          (calls[c].pc # "done" /\ Failed(calls'[c])
              /\ calls'[c].raised = "ConnectionError_failed")
              => /\ calls'[c].server \notin servers'
                 /\ calls'[c].server \in pending_connections']_vars

\* C8 amended: a step that ends a call with the connection-failed error changes
\* neither the connected map nor the pending set (a connected server stays
\* connected and is not marked pending); a server that leaves the connected map
\* (cleanup) is not pending afterwards unless it already was.
C8_FailureKeepsConnectionState ==
    [][/\ \A c \in Callers :
            (calls[c].pc # "done" /\ Failed(calls'[c])
                /\ calls'[c].raised = "ConnectionError_failed")
                => /\ servers' = servers
                   /\ pending_connections' = pending_connections
       /\ \A s \in servers \ servers' :
            /\ servers' = {}
            /\ pending_connections' = pending_connections]_vars

\* a call ended with the connection-failed error and its server is still
\* connected and not pending
C8_Witness ==
    \E c \in Callers :
        /\ Failed(calls[c])
        /\ calls[c].raised = "ConnectionError_failed"
        /\ calls[c].server \in servers
        /\ calls[c].server \notin pending_connections

\* C9: a call that returned did so with the value of its last _execute_tool,
\* which was invocation number attempt + 1 = k <= len(retry_delays): exactly k
\* invocations were made, k - 1 delays slept, and k > 1 needs retry allowed.
C9_SuccessAtAttemptK ==
    \A c \in Callers :
        Succeeded(calls[c]) =>
            /\ calls[c].result = ToolResult(calls[c].server, calls[c].tool)
            /\ calls[c].execs = calls[c].attempt + 1
            /\ calls[c].execs \in 1..Len(retry_delays)
            /\ Len(calls[c].sleeps) = calls[c].execs - 1
            /\ (calls[c].execs > 1 => calls[c].retry)

\* success on the last scheduled attempt
C9_Witness ==
    \E c \in Callers :
        /\ Succeeded(calls[c])
        /\ calls[c].execs = Len(retry_delays)
        /\ calls[c].fails # "none"

\* C10: a call with retry allowed that ended without a result and whose
\* attempts all timed out raised TimeoutError after exactly len(retry_delays)
\* invocations, having slept the delays of the schedule in order (all but the
\* last, which follows no attempt).
C10_TimeoutExhaustion ==
    \A c \in Callers :
        (Failed(calls[c]) /\ calls[c].retry /\ calls[c].fails = "timeout")
            => /\ calls[c].raised = "TimeoutError"
               /\ calls[c].execs = Len(retry_delays)
               /\ calls[c].sleeps = SubSeq(retry_delays, 1, Len(retry_delays) - 1)
               /\ calls[c].reconnects = 0

C10_Witness ==
    \E c \in Callers :
        /\ Failed(calls[c])
        /\ calls[c].retry
        /\ calls[c].fails = "timeout"
        /\ calls[c].raised = "TimeoutError"
        /\ calls[c].execs = Len(retry_delays)

\* C11 as stated: a call with retry allowed that ended without a result and
\* whose attempts all raised a connection error raised the connection-failed
\* error after exactly len(retry_delays) invocations and len(retry_delays) - 1
\* reconnects.
C11_Original ==
    \A c \in Callers :
        (Failed(calls[c]) /\ calls[c].retry /\ calls[c].fails = "connection_error")
            => /\ calls[c].raised = "ConnectionError_failed"
               /\ calls[c].execs = Len(retry_delays)
               /\ calls[c].reconnects = Len(retry_delays) - 1

\* C11 amended: such a call raised the connection-failed error, with one
\* reconnect after every attempt but the last scheduled one; either every
\* reconnect succeeded and it made len(retry_delays) invocations (each
\* reconnect followed by its delay), or a reconnect failed and the call ended
\* there, with as many reconnects as invocations and no sleep after the last.
C11_ConnectionErrorExhaustion ==
    \A c \in Callers :
        (Failed(calls[c]) /\ calls[c].retry /\ calls[c].fails = "connection_error")
            => /\ calls[c].raised = "ConnectionError_failed"
               /\ calls[c].sleeps = SubSeq(retry_delays, 1, calls[c].execs - 1)
               /\ \/ /\ calls[c].execs = Len(retry_delays)
                     /\ calls[c].reconnects = Len(retry_delays) - 1
                  \/ /\ calls[c].execs < Len(retry_delays)
                     /\ calls[c].reconnects = calls[c].execs

\* every attempt raised a connection error and every reconnect succeeded
C11_Witness ==
    \E c \in Callers :
        /\ Failed(calls[c])
        /\ calls[c].retry
        /\ calls[c].fails = "connection_error"
        /\ calls[c].execs = Len(retry_delays)
        /\ calls[c].reconnects = Len(retry_delays) - 1

\* C12: a call whose lazy connect failed raised the cannot-connect error after
\* exactly one connection attempt, no transport invocation, no sleep and no
\* reconnect, and the step that ends it changes neither the pending set nor the
\* connected map: a server that was still pending stays pending (only a
\* concurrent call that connected it meanwhile can have removed the mark).
C12_FailedLazyConnectIsFatal ==
    /\ [](\A c \in Callers :
            calls[c].raised = "ConnectionError_cannot_connect"
                => /\ Failed(calls[c])
                   /\ calls[c].connects = 1
                   /\ calls[c].execs = 0
                   /\ calls[c].reconnects = 0
                   /\ calls[c].sleeps = <<>>)
    /\ [][\A c \in Callers :
            (calls[c].pc = "lazy_connect"
                /\ calls'[c].raised = "ConnectionError_cannot_connect")
                => /\ pending_connections' = pending_connections
                   /\ servers' = servers]_vars

\* a lazy connect failed and another call on the same, still pending, server
\* is connecting lazily again
C12_Witness ==
    \E a, b \in Callers :
        /\ calls[a].raised = "ConnectionError_cannot_connect"
        /\ calls[a].server \in pending_connections
        /\ calls[b].pc = "lazy_connect"
        /\ calls[b].server = calls[a].server

\* C13: initialize() connects to the enabled servers one after the other, each
\* exactly once and in configuration order, and to no disabled one; the step
\* that ends the connect of a server leaves it either connected or pending and
\* changes the state of no other server; initialize() then goes on to the next
\* enabled server or completes, whatever the outcome was.
C13_BestEffortStartup ==
    /\ [](init.pc = "connecting" => server_configs[ServerOrder[init.i]].enabled)
    /\ [][init' # init =>
            /\ init'.i > init.i
            /\ \A j \in (init.i + 1)..(init'.i - 1) : ~server_configs[ServerOrder[j]].enabled
            /\ init'.pc = (IF init'.i > Len(ServerOrder) THEN "done" ELSE "connecting")
            /\ init.pc = "new" => UNCHANGED <<servers, pending_connections>>
            /\ init.pc = "connecting" =>
                 LET s == ServerOrder[init.i] IN
                 /\ (s \in servers') # (s \in pending_connections')
                 /\ servers' \ {s} = servers \ {s}
                 /\ pending_connections' \ {s} = pending_connections \ {s}]_vars

\* initialize() has completed with one server connected and another pending
C13_Witness ==
    /\ init.pc = "done"
    /\ started = 0
    /\ servers # {}
    /\ pending_connections # {}

\* C14: the step that ends a failed connect of initialize() leaves the server
\* pending and not connected; a call_tool that starts on a server that is
\* pending and not connected suspends in exactly one lazy connect, and a call
\* never attempts a connect once it has invoked the transport, so the lazy
\* connect precedes the first invocation.
C14_PendingAfterFailedStartup ==
    [][/\ (init.pc = "connecting" /\ init' # init /\ ServerOrder[init.i] \notin servers')
            => ServerOrder[init.i] \in pending_connections'
       /\ \A c \in Callers :
            /\ (Starts(c) /\ calls'[c].server \in pending_connections
                          /\ calls'[c].server \notin servers)
                  => /\ calls'[c].pc = "lazy_connect"
                     /\ calls'[c].connects = 1
                     /\ calls'[c].execs = 0
            /\ calls'[c].connects > (IF Starts(c) THEN 0 ELSE calls[c].connects)
                  => /\ calls'[c].execs = 0
                     /\ calls'[c].connects = 1]_vars

\* a call connected lazily, once, and has then invoked the transport
C14_Witness ==
    \E c \in Callers :
        /\ calls[c].connects = 1
        /\ calls[c].execs >= 1
        /\ calls[c].server \in servers

\* C15: a step that removes a server from the connected map removes all of
\* them, whatever set was connected, and changes nothing else.
C15_CleanupDisconnectsAll ==
    [][servers \ servers' # {} =>
          /\ servers' = {}
          /\ UNCHANGED <<server_configs, pending_connections, locks, calls, init, started>>]_vars

\* every configured server was connected at startup and has been torn down
C15_Witness ==
    /\ init.pc = "done"
    /\ \A s \in Registered :
          /\ server_configs[s].enabled
          /\ s \notin servers
          /\ s \notin pending_connections

\* the error call_tool raises for a failure of the last attempt
RaisedFor(e) ==
    CASE e = "timeout" -> "TimeoutError"
      [] e = "connection_error" -> "ConnectionError_failed"
      [] OTHER -> e

\* C16: a call made with retry = false makes at most one transport invocation,
\* never sleeps and never reconnects; when that invocation fails the call has
\* ended with TimeoutError for a timeout, the connection-failed error for a
\* connection error, and the error itself for any other failure.
C16_NoRetry ==
    \A c \in Callers :
        (calls[c].pc # "idle" /\ ~calls[c].retry)
            => /\ calls[c].execs <= 1
               /\ calls[c].sleeps = <<>>
               /\ calls[c].reconnects = 0
               /\ calls[c].fails # "none"
                     => /\ Failed(calls[c])
                        /\ calls[c].execs = 1
                        /\ calls[c].fails # "mixed"
                        /\ calls[c].raised = RaisedFor(calls[c].fails)

\* two calls without retry ended on their first failure, a timeout and a
\* connection error
C16_Witness ==
    \E a, b \in Callers :
        /\ ~calls[a].retry /\ calls[a].raised = "TimeoutError"
        /\ ~calls[b].retry /\ calls[b].raised = "ConnectionError_failed"

\* C17: a call with retry allowed whose attempts all failed with the same
\* error that is neither a timeout nor a connection error raised that very
\* error after len(retry_delays) invocations, having slept the delays of the
\* schedule in order; and such an error is only ever raised, with retry
\* allowed, by the last scheduled attempt.
C17_OtherErrorExhaustion ==
    \A c \in Callers :
        /\ (Failed(calls[c]) /\ calls[c].retry /\ calls[c].fails \in {"error", "key_error"})
              => /\ calls[c].raised = calls[c].fails
                 /\ calls[c].execs = Len(retry_delays)
                 /\ calls[c].sleeps = SubSeq(retry_delays, 1, Len(retry_delays) - 1)
                 /\ calls[c].reconnects = 0
        /\ (calls[c].retry /\ calls[c].raised \in {"error", "key_error"})
              => calls[c].execs = Len(retry_delays)

C17_Witness ==
    \E c \in Callers :
        /\ Failed(calls[c])
        /\ calls[c].retry
        /\ calls[c].fails = "error"
        /\ calls[c].raised = "error"
        /\ calls[c].execs = Len(retry_delays)

\* C18: a call that has ended either returned the value of a transport
\* invocation of its own that succeeded, or raised an error and has no result;
\* a call that has not ended has no result.
C18_NoErrorTurnedIntoSuccess ==
    \A c \in Callers :
        IF calls[c].pc = "done"
        THEN \/ /\ calls[c].raised = "none"
                /\ calls[c].oks = 1
                /\ calls[c].execs >= 1
                /\ calls[c].result = ToolResult(calls[c].server, calls[c].tool)
             \/ /\ calls[c].raised # "none"
                /\ calls[c].oks = 0
                /\ calls[c].result = NoResult
        ELSE calls[c].oks = 0 /\ calls[c].raised = "none" /\ calls[c].result = NoResult

\* a call ended by exhausting the schedule without a successful invocation
C18_Witness ==
    \E c \in Callers :
        /\ Failed(calls[c])
        /\ calls[c].execs = Len(retry_delays)
        /\ calls[c].oks = 0
        /\ calls[c].result = NoResult

\* position of caller c in the queue q of a lock, 0 when it is not queued
QueuePos(c, q) ==
    IF \E i \in 1..Len(q) : q[i] = c THEN CHOOSE i \in 1..Len(q) : q[i] = c ELSE 0

\* this step makes caller c invoke the transport for the first time in its call
FirstInvoke(c) == Invokes(c) /\ calls'[c].execs = 1

\* C19: the queue of a lock keeps the order of arrival (a caller joins at the
\* end, only the head leaves), and while caller b waits for the lock of S no
\* other caller makes its first transport invocation on S unless it waits
\* ahead of b: neither a later waiter nor a newcomer overtakes b.
C19_FirstComeFirstServed ==
    [][/\ \A s \in Registered :
            \/ locks'[s].waiters = locks[s].waiters
            \/ \E c \in FifoCallers :
                  /\ QueuePos(c, locks[s].waiters) = 0
                  /\ locks'[s].waiters = Append(locks[s].waiters, c)
            \/ /\ locks[s].waiters # <<>>
               /\ locks'[s].waiters = Tail(locks[s].waiters)
       /\ \A a, b \in FifoCallers :
            (a # b /\ calls[b].pc = "waiting" /\ calls'[a].server = calls[b].server
                   /\ FirstInvoke(a))
                => /\ calls[a].pc = "waiting"
                   /\ QueuePos(a, locks[calls[b].server].waiters)
                        < QueuePos(b, locks[calls[b].server].waiters)]_vars

\* two callers queue on the lock of one server behind a third
C19_Witness ==
    \E s \in Registered : \E a, b, c \in FifoCallers :
        /\ locks[s].waiters = <<a, b>>
        /\ InLoop(calls[c]) /\ calls[c].server = s
        /\ calls[a].pc = "waiting" /\ calls[b].pc = "waiting"

\* C20: a caller starts to wait only when the lock of its own server is taken
\* or has waiters, and a step of a call on one server changes the lock of no
\* other server: a call that holds the lock of S1, in flight or asleep, never
\* delays a call on S2.
C20_ServersDoNotSerialize ==
    [][\A c \in Callers :
          /\ (calls'[c].pc = "waiting" /\ calls[c].pc # "waiting")
                => \/ locks[calls'[c].server].locked
                   \/ locks[calls'[c].server].waiters # <<>>
          /\ calls'[c] # calls[c]
                => \A t \in Registered \ {calls'[c].server} : locks'[t] = locks[t]]_vars

\* transport invocations on two servers are in flight at once, one of them by
\* a call that has already slept while holding its lock
C20_Witness ==
    \E a, b \in Callers :
        /\ calls[a].server # calls[b].server
        /\ InFlight(a, calls[a].server)
        /\ InFlight(b, calls[b].server)
        /\ calls[a].execs >= 2

\* C21: whatever the transport and the reconnects do and whatever retry is, one
\* call makes at most len(retry_delays) transport invocations, sleeps at most
\* len(retry_delays) - 1 times, reconnects at most len(retry_delays) - 1 times,
\* and its i-th sleep lasts the i-th delay of the schedule.
C21_RetryScheduleBounds ==
    \A c \in Callers :
        /\ calls[c].execs <= Len(retry_delays)
        /\ Len(calls[c].sleeps) <= Len(retry_delays) - 1
        /\ calls[c].reconnects <= Len(retry_delays) - 1
        /\ calls[c].sleeps = SubSeq(retry_delays, 1, Len(calls[c].sleeps))

\* a call reached every bound at once: connection errors with reconnects on all
\* attempts but the last, which failed differently
C21_Witness ==
    \E c \in Callers :
        /\ calls[c].pc = "done"
        /\ calls[c].execs = Len(retry_delays)
        /\ Len(calls[c].sleeps) = Len(retry_delays) - 1
        /\ calls[c].reconnects = Len(retry_delays) - 1
        /\ calls[c].fails = "mixed"

\* C23: in every state there is exactly one lock for every configured server,
\* enabled or not, and no step of initialize, call_tool or cleanup changes a
\* configuration, the set of configured names or the set of names that have a
\* lock.
C23_ConfigAndSlotsFixed ==
    /\ [](DOMAIN locks = DOMAIN server_configs /\ DOMAIN server_configs = Registered)
    /\ [][/\ server_configs' = server_configs
          /\ DOMAIN locks' = DOMAIN locks]_vars

\* a disabled server has its lock after startup, a call through a lock and a
\* cleanup
C23_Witness ==
    /\ init.pc = "done"
    /\ servers = {}
    /\ \E s \in Registered : ~server_configs[s].enabled /\ s \in DOMAIN locks
    /\ \E c \in Callers : calls[c].pc = "done" /\ calls[c].execs >= 1

\* the call is connecting: the lazy connect before the lock, or the reconnect
\* inside it
Connecting(r) == r.pc \in {"lazy_connect", "reconnecting"}

C26_ConnectedExcludesPending == servers \cap pending_connections = {}

\* a server that was pending has been connected by a lazy connect while another
\* one is still pending
C26_Witness ==
    \E s, t \in Registered :
        /\ s \in servers /\ s \notin pending_connections
        /\ t \in pending_connections /\ t \notin servers
        /\ \E c \in Callers : calls[c].server = s /\ calls[c].connects = 1 /\ calls[c].execs >= 1

\* C27: a disabled server is neither connected nor pending, initialize() is
\* never connecting to it, and no call on it has attempted a connection (lazy
\* connect or reconnect) or is attempting one.
C27_DisabledNeverConnected ==
    \A s \in Registered :
        ~server_configs[s].enabled =>
            /\ s \notin servers
            /\ s \notin pending_connections
            /\ ~(init.pc = "connecting" /\ ServerOrder[init.i] = s)
            /\ \A c \in Callers :
                  calls[c].server = s =>
                      /\ ~Connecting(calls[c])
                      /\ calls[c].connects = 0
                      /\ calls[c].reconnects = 0

\* a call on a disabled server has ended after startup, while the enabled
\* server is connected
C27_Witness ==
    \E s \in Registered, c \in Callers :
        /\ ~server_configs[s].enabled
        /\ init.pc = "done"
        /\ servers # {}
        /\ calls[c].server = s
        /\ calls[c].pc = "done"

\* this step takes caller c past the "Check if connected" of call_tool
PassesConnectedCheck(c) ==
    /\ Starts(c) \/ calls[c].pc = "lazy_connect"
    /\ calls'[c] # calls[c]
    /\ calls'[c].pc = "waiting" \/ calls'[c].execs >= 1

\* C28 as stated: an invocation succeeds only if it was started with the server
\* connected, an attempt started with the server not connected fails, and a
\* call makes its first invocation (enters the retry loop) only with the server
\* connected.
C28_Original ==
    [][\A c \in Callers :
          /\ calls'[c].oks > (IF Starts(c) THEN 0 ELSE calls[c].oks)
                => calls[c].pc = "executing"
          /\ (Invokes(c) /\ calls'[c].pc = "executing") => calls'[c].server \in servers'
          /\ (Invokes(c) /\ calls'[c].server \notin servers')
                => /\ calls'[c].fails \in {"key_error", "mixed"}
                   /\ calls'[c].oks = 0
          /\ FirstInvoke(c) => calls'[c].server \in servers']_vars

\* C28 amended: an invocation succeeds only if it was started with the server
\* connected, and an attempt started with the server not connected fails; a
\* call passes the connected check, to queue on the lock or to enter the loop
\* at once, only with the server connected; a call that makes its first
\* invocation with the server not connected was waiting for the lock, and that
\* attempt fails.
C28_SuccessOnlyWhenConnected ==
    [][\A c \in Callers :
          /\ calls'[c].oks > (IF Starts(c) THEN 0 ELSE calls[c].oks)
                => calls[c].pc = "executing"
          /\ (Invokes(c) /\ calls'[c].pc = "executing") => calls'[c].server \in servers'
          /\ (Invokes(c) /\ calls'[c].server \notin servers')
                => /\ calls'[c].fails \in {"key_error", "mixed"}
                   /\ calls'[c].oks = 0
          /\ PassesConnectedCheck(c) => calls'[c].server \in servers'
          /\ (FirstInvoke(c) /\ calls'[c].server \notin servers')
                => calls[c].pc = "waiting"]_vars

\* cleanup removed the connection between two attempts of a call, whose later
\* attempts failed on the missing session until the schedule was exhausted
C28_Witness ==
    \E c \in Callers :
        /\ calls[c].pc = "done"
        /\ calls[c].raised = "key_error"
        /\ calls[c].fails = "mixed"
        /\ calls[c].execs = Len(retry_delays)
        /\ calls[c].server \notin servers

\* C22: under the fair scheduler every call_tool that has started ends, by a
\* return or a raise, and a caller that waits for a lock gets it and makes its
\* first transport invocation.
C22_EveryCallTerminates ==
    \A c \in Callers :
        /\ (calls[c].pc \notin {"idle", "done"}) ~> (calls[c].pc = "done")
        /\ (calls[c].pc = "waiting") ~> (calls[c].pc # "waiting" /\ calls[c].execs >= 1)

\* the holder of a lock has exhausted the schedule and ended, and the caller
\* that queued behind it has been woken
C22_Witness ==
    \E a, b \in Callers :
        /\ calls[a].pc = "done"
        /\ calls[a].execs = Len(retry_delays)
        /\ calls[b].pc = "waiting"
        /\ calls[b].server = calls[a].server
        /\ locks[calls[b].server].woken
        /\ locks[calls[b].server].waiters = <<b>>

\* C24: handle_alert never lets an error of handle() out: no request ends with
\* an exception, and a request whose handle() raised has been answered with
\* status "error", the name of the plugin and alerts_processed = 0.
C24_FailureNeverEscapes ==
    /\ request.pc # "escaped"
    /\ request.raised # "none" =>
          /\ request.pc = "responded"
          /\ request.response.status = "error"
          /\ request.response.plugin = request.plugin
          /\ request.response.message = request.raised
          /\ request.response.alerts_processed = 0

\* an error of call_tool went through call_mcp_tool and handle() on a payload
\* with alerts, and the request was answered
C24_Witness ==
    /\ request.pc = "responded"
    /\ request.raised = "ConnectionError"
    /\ request.alerts # <<>>
    /\ request.response.status = "error"

\* number of alerts of a handle() of JiraPlugin that ended as d
Disposed(j, d) == Cardinality({k \in 1..Len(j.dispositions) : j.dispositions[k] = d})

\* C29: in JiraPlugin.handle every alert handled so far was counted once, as
\* an issue created, a duplicate skipped or an error, whatever the outcomes of
\* the duplicate check, the summary and the creation; handle() returns only
\* after the last alert, so the three counts add up to the number of alerts of
\* the payload and an error stops nothing; the status returned is "ok" exactly
\* when errors = 0 and "partial" otherwise; and an alert whose duplicate check
\* raised is never skipped: its issue creation is attempted.
C29_JiraAccounting ==
    jira.pc # "idle" =>
        LET handled == Len(jira.dispositions) IN
        /\ handled = (IF jira.pc = "returned" THEN Len(jira.alerts) ELSE jira.i - 1)
        /\ Len(jira.created_issues) = Disposed(jira, "created")
        /\ jira.skipped_duplicates = Disposed(jira, "skipped")
        /\ jira.errors = Disposed(jira, "error")
        /\ Len(jira.created_issues) + jira.skipped_duplicates + jira.errors = handled
        /\ \A k \in jira.dup_failed :
              /\ k <= handled => (jira.dispositions[k] # "skipped" /\ k \in jira.attempted)
              /\ k > handled => (k = jira.i /\ jira.pc \in {"generate_summary", "create_jira_issue"})
        /\ jira.pc = "returned" =>
              /\ request.pc = "responded"
              /\ request.plugin = "jira"
              /\ request.response.status \in {"ok", "partial"}
              /\ (request.response.status = "ok") <=> (jira.errors = 0)
              /\ request.response.errors = jira.errors
              /\ request.response.skipped = jira.skipped_duplicates
              /\ request.response.issues_created = jira.created_issues
              /\ request.response.alerts_processed = Len(jira.created_issues)

\* the duplicate check of the first alert raised and its creation failed; the
\* second alert still got its issue, and the status is "partial"
C29_Witness ==
    /\ jira.pc = "returned"
    /\ jira.dispositions = <<"error", "created">>
    /\ 1 \in jira.dup_failed
    /\ request.response.status = "partial"

\* length of the history of fingerprint f, 0 when it has none
HistLen(store, f) == IF f \in DOMAIN store THEN Len(store[f]) ELSE 0

\* C30: after any sequence of handle() calls total_alerts_received equals the
\* number of entries stored over all fingerprints and every entry is under the
\* fingerprint of its alert, in order of arrival; a handle() stores each alert
\* of its payload as a new entry under its fingerprint, and the history of a
\* fingerprint keeps every entry it had, in place.
C30_RecallStoreConsistent ==
    /\ [](LET store == recall.alerts_store IN
          /\ recall.total_alerts_received = TotalStored(store)
          /\ \A f \in DOMAIN store :
                /\ store[f] # <<>>
                /\ \A k \in 1..Len(store[f]) : store[f][k].alert.fingerprint = f
                /\ \A k, l \in 1..Len(store[f]) :
                      k < l => store[f][k].received_at < store[f][l].received_at)
    /\ [][LET store == recall.alerts_store
              after == recall'.alerts_store
          IN /\ \A f \in DOMAIN store :
                   /\ f \in DOMAIN after
                   /\ Len(after[f]) >= Len(store[f])
                   /\ SubSeq(after[f], 1, Len(store[f])) = store[f]
             /\ (request'.plugin = "recall" /\ request'.n # request.n) =>
                   /\ \A k \in 1..Len(request'.alerts) :
                         LET a == request'.alerts[k] IN
                         \E m \in (HistLen(store, a.fingerprint) + 1)..Len(after[a.fingerprint]) :
                             after[a.fingerprint][m] = [alert |-> a, received_at |-> recall.now + k - 1]
                   /\ TotalStored(after) = TotalStored(store) + Len(request'.alerts)
                   /\ request'.response.alerts_processed = Len(request'.alerts)]_vars

\* two fingerprints are stored, one of them with a history of several entries
\* that arrived in different requests
C30_Witness ==
    LET store == recall.alerts_store IN
    /\ DOMAIN store = Fingerprints
    /\ recall.total_alerts_received >= 3
    /\ \E f \in DOMAIN store :
          /\ Len(store[f]) >= 2
          /\ store[f][Len(store[f])].received_at > store[f][1].received_at + 1

====
